---- MODULE Spec2Model ----
(***************************************************************************)
(* A model of train.py: the feature encoder (KudosDataset.payload_to_tensor *)
(* and its one-hot helpers), the dataset loader (KudosDataset.__init__),    *)
(* the architecture builder (create_sequential_model), the search           *)
(* objective (objective) and the study driver (main).                       *)
(*                                                                          *)
(* JSON values are records [t, n, d, s, l]: t is the JSON type, n/d the     *)
(* number as a fraction (a bool is 1/1 or 0/1), s the string, l the list.   *)
(* A key that a dict does not hold is the value Absent.  Floats are exact   *)
(* fractions <<numerator, denominator>>.  A Python exception is the name of *)
(* its class in the field err; "none" is a normal return.                   *)
(***************************************************************************)
EXTENDS Integers, Sequences, FiniteSets, TLC

VARIABLES
    \* the encoder called on one record
    payload,        \* the request record handed to payload_to_tensor
    tensor,         \* what payload_to_tensor returned for it (or NotEncoded)
    edits,          \* how many fields of the record differ from PAYLOAD_EXAMPLE
    cursor,         \* the last field changed (fields are changed in FieldOrder)
    \* KudosDataset
    payload_list,   \* the records json.load returned
    self_data,      \* self.data
    self_labels,    \* self.labels
    mixed_data,     \* self.mixed_data
    ds_i,           \* the position of the loop of __init__ in payload_list
    ds_pc,          \* "loop", "ready" (constructed) or "raised"
    ds_err,         \* the exception __init__ raised, "none" otherwise
    item,           \* what the last __getitem__ returned
    \* create_sequential_model
    hidden,         \* the argument layer_sizes, the hidden widths
    layer_sizes,    \* the local layer_sizes, [input_size] + hidden + [output_size]
    layers,         \* the local list layers
    b_i,            \* the loop variable i (counts from 0, as in the code)
    b_pc,           \* "loop" or "done" (nn.Sequential returned)
    \* one validation pass over a validation set
    val_errors,     \* the squared error of the model on each validation example
    delivery,       \* the order in which validate_loader delivers the examples
    val_loss,       \* total_loss / len(validate_loader) of the pass (or NoneLoss)
    \* the study: worker processes, the ledger and the checkpoint directory
    wk,             \* the state of each worker process
    ledger,         \* per database file and study name, the trials in order
    files,          \* kudos_models: checkpoint path -> the trial whose network it holds
    validate_size,  \* the number of examples of the validation data file
    command_lines   \* the <<--db-path, --study-version>> the processes are started with

encVars == <<payload, tensor, edits, cursor>>
dsVars == <<payload_list, self_data, self_labels, mixed_data, ds_i, ds_pc, ds_err, item>>
bldVars == <<hidden, layer_sizes, layers, b_i, b_pc>>
valVars == <<val_errors, delivery, val_loss>>
studyVars == <<wk, ledger, files, validate_size, command_lines>>
vars == <<encVars, dsVars, bldVars, valVars, studyVars>>

\* What an action of one part leaves alone: the other parts.
encRest == <<dsVars, bldVars, valVars, studyVars>>
dsRest == <<encVars, bldVars, valVars, studyVars>>
bldRest == <<encVars, dsVars, valVars, studyVars>>
valRest == <<encVars, dsVars, bldVars, studyVars>>
studyRest == <<encVars, dsVars, bldVars, valVars>>

-----------------------------------------------------------------------------
(* JSON values *)

V(t, n, d, s, l) == [t |-> t, n |-> n, d |-> d, s |-> s, l |-> l]
Absent      == V("absent", 0, 1, "", <<>>)
Null        == V("null", 0, 1, "", <<>>)
Num(n)      == V("num", n, 1, "", <<>>)
Frac(n, d)  == V("num", n, d, "", <<>>)
Bool(b)     == V("bool", IF b THEN 1 ELSE 0, 1, "", <<>>)
Str(s)      == V("str", 0, 1, s, <<>>)
List(l)     == V("list", 0, 1, "", l)

One  == <<1, 1>>
Zero == <<0, 1>>

\* Python truthiness of a JSON value (None, False, 0, "" and [] are falsy).
Truthy(v) ==
    CASE v.t = "null" -> FALSE
      [] v.t \in {"num", "bool"} -> v.n # 0
      [] v.t = "str" -> v.s # ""
      [] v.t = "list" -> v.l # <<>>
      [] OTHER -> FALSE

\* dict.get(key, default): the default only when the key is absent.
Get(dict, key, default) == IF dict[key].t = "absent" THEN default ELSE dict[key]

-----------------------------------------------------------------------------
(* Vocabularies, lines 135-164.  Each list is written in its sorted order.  *)

KNOWN_POST_PROCESSORS ==
    << "RealESRGAN_x4plus", "RealESRGAN_x2plus", "RealESRGAN_x4plus_anime_6B",
       "NMKD_Siax", "4x_AnimeSharp", "strip_background", "GFPGAN", "CodeFormers" >>

KNOWN_SCHEDULERS == << "karras", "simple" >>

\* The keys of HordeLib.SAMPLERS_MAP, sorted: the map is defined outside
\* train.py; PAYLOAD_EXAMPLE and the fallback at line 316 name "k_euler".
KNOWN_SAMPLERS == << "k_dpm_2", "k_euler", "k_euler_a", "k_heun", "k_lms" >>

\* The keys of HordeLib.CONTROLNET_IMAGE_PREPROCESSOR_MAP plus "None", sorted
\* (upper case sorts first).
KNOWN_CONTROL_TYPES == << "None", "canny", "depth", "hed" >>

\* HordeLib.SOURCE_IMAGE_PROCESSING_OPTIONS plus "txt2img", sorted.
KNOWN_SOURCE_PROCESSING == << "img2img", "inpainting", "outpainting", "txt2img" >>

KNOWN_MODEL_BASELINES ==
    << "flux_1", "stable_cascade", "stable_diffusion_1", "stable_diffusion_2",
       "stable_diffusion_xl" >>

-----------------------------------------------------------------------------
(* The request record.  job is payload["sdk_api_job_info"], p is            *)
(* payload["sdk_api_job_info"]["payload"], label is the top-level           *)
(* "time_to_generate".                                                      *)

RequiredNumeric == {"height", "width", "ddim_steps", "cfg_scale"}
NotNoneNumeric  == {"denoising_strength", "control_strength", "facefixer_strength"}
FloatNumeric    == {"clip_skip", "lora_count", "ti_count", "extra_source_images_count",
                    "extra_source_images_combined_size", "source_image_size",
                    "source_mask_size"}
DefaultTrueFlags == {"hires_fix", "hires_fix_denoising_strength", "image_is_control",
                     "return_control_map", "transparent", "source_image",
                     "source_mask", "tiling"}
PCategorical    == {"scheduler", "sampler_name", "control_type"}
JobCategorical  == {"model_baseline", "source_processing"}

PFields == RequiredNumeric \cup NotNoneNumeric \cup FloatNumeric \cup DefaultTrueFlags
           \cup PCategorical \cup {"post_processing_order", "post_processing"}
JobFields == JobCategorical

PAYLOAD_EXAMPLE ==
    [ label |-> Frac(445, 100),
      job |-> [f \in JobFields |->
                 CASE f = "model_baseline" -> Str("stable_diffusion_1")
                   [] f = "source_processing" -> Str("img2img")],
      p |-> [f \in PFields |->
                 CASE f = "sampler_name" -> Str("k_euler")
                   [] f = "cfg_scale" -> Num(24)
                   [] f = "denoising_strength" -> Null
                   [] f = "height" -> Num(1024)
                   [] f = "width" -> Num(768)
                   [] f = "post_processing" -> List(<<>>)
                   [] f = "post_processing_order" -> Str("facefixers_first")
                   [] f = "tiling" -> Bool(FALSE)
                   [] f = "hires_fix" -> Bool(FALSE)
                   [] f = "hires_fix_denoising_strength" -> Null
                   [] f = "clip_skip" -> Num(1)
                   [] f = "control_type" -> Null
                   [] f = "image_is_control" -> Bool(FALSE)
                   [] f = "return_control_map" -> Bool(FALSE)
                   [] f = "facefixer_strength" -> Null
                   [] f = "transparent" -> Bool(FALSE)
                   [] f = "ddim_steps" -> Num(40)
                   [] f = "scheduler" -> Str("karras")
                   [] f = "lora_count" -> Num(0)
                   [] f = "ti_count" -> Num(0)
                   [] OTHER -> Absent ] ]

-----------------------------------------------------------------------------
(* Sequence helpers *)

RECURSIVE FirstErr(_)
\* The first exception raised by a sequence of evaluations, in their order.
FirstErr(errs) ==
    IF errs = <<>> THEN "none"
    ELSE IF Head(errs) # "none" THEN Head(errs) ELSE FirstErr(Tail(errs))

RECURSIVE Flatten(_)
Flatten(seqs) == IF seqs = <<>> THEN <<>> ELSE Head(seqs) \o Flatten(Tail(seqs))

RECURSIVE SetToSeq(_)
\* The elements of a finite set, in some order.
SetToSeq(S) == IF S = {} THEN <<>> ELSE LET x == CHOOSE x \in S : TRUE IN <<x>> \o SetToSeq(S \ {x})

RECURSIVE SumLen(_)
SumLen(seqs) == IF seqs = <<>> THEN 0 ELSE Len(Head(seqs)) + SumLen(Tail(seqs))

\* x in unique_strings, for a JSON value x and a list of strings.
In(v, unique_strings) ==
    v.t = "str" /\ \E j \in 1..Len(unique_strings) : unique_strings[j] = v.s

\* unique_strings.index(x): the first position of x, 0 for the ValueError.
Index(unique_strings, v) ==
    IF In(v, unique_strings)
    THEN CHOOSE j \in 1..Len(unique_strings) :
            /\ unique_strings[j] = v.s
            /\ \A k \in 1..(j - 1) : unique_strings[k] # v.s
    ELSE 0

-----------------------------------------------------------------------------
(* KudosDataset.one_hot_encode, lines 342-347 *)

\* torch.zeros(len(strings), len(unique_strings)) with one_hot[i, index] = 1.
OneHotRows(strings, unique_strings) ==
    [i \in 1..Len(strings) |->
        [j \in 1..Len(unique_strings) |->
            IF j = Index(unique_strings, strings[i]) THEN One ELSE Zero]]

OneHotErr(strings, unique_strings) ==
    IF \E i \in 1..Len(strings) : Index(unique_strings, strings[i]) = 0
    THEN "ValueError" ELSE "none"

one_hot_encode(strings, unique_strings) ==
    [err |-> OneHotErr(strings, unique_strings),
     t   |-> OneHotRows(strings, unique_strings)]

(* KudosDataset.one_hot_encode_combined, lines 349-355 *)

RECURSIVE ColumnSum(_, _)
\* The sum of column j over the rows, as torch.sum(dim=0) adds them.
ColumnSum(rows, j) ==
    IF rows = <<>> THEN 0 ELSE Head(rows)[j][1] + ColumnSum(Tail(rows), j)

\* torch.sum(one_hot, dim=0, keepdim=True): one row, whatever the row count.
SumDim0KeepDim(rows, width) ==
    << [j \in 1..width |-> <<ColumnSum(rows, j), 1>>] >>

\* Variant: the rows are summed along the wrong dimension (dim=1).
one_hot_encode_combined_dim1(strings, unique_strings) ==
    [err |-> OneHotErr(strings, unique_strings),
     t   |-> [i \in 1..Len(strings) |->
                 << <<Len(SelectSeq(OneHotRows(strings, unique_strings)[i],
                                    LAMBDA x : x = One)), 1>> >>]]

\* Variant: an indicator per post-processor (a logical OR of the rows).
one_hot_encode_combined_capped(strings, unique_strings) ==
    [err |-> OneHotErr(strings, unique_strings),
     t   |-> << [j \in 1..Len(unique_strings) |->
                   IF ColumnSum(OneHotRows(strings, unique_strings), j) > 0
                   THEN One ELSE Zero] >>]

one_hot_encode_combined(strings, unique_strings) ==
    [err |-> OneHotErr(strings, unique_strings),
     t   |-> SumDim0KeepDim(OneHotRows(strings, unique_strings), Len(unique_strings))]

-----------------------------------------------------------------------------
(* KudosDataset.payload_to_tensor, lines 274-340 *)

Res(err, v) == [err |-> err, v |-> v]

\* p[f] / k
DivEntry(p, f, k) ==
    CASE p[f].t = "absent" -> Res("KeyError", Null)
      [] p[f].t \in {"num", "bool"} -> Res("none", Frac(p[f].n, p[f].d * k))
      [] OTHER -> Res("TypeError", Null)

\* p.get(f, 1.0) if p.get(f, 1.0) is not None else 1.0
NotNoneEntry(p, f) ==
    IF Get(p, f, Num(1)).t # "null" THEN Res("none", Get(p, f, Num(1)))
    ELSE Res("none", Num(1))

\* float(p.get(f, default)); a string is taken not to spell a number.
FloatEntry(p, f, default) ==
    LET v == Get(p, f, default) IN
    CASE v.t \in {"num", "bool"} -> Res("none", Frac(v.n, v.d))
      [] v.t = "str" -> Res("ValueError", Null)
      [] OTHER -> Res("TypeError", Null)

\* 1.0 if p.get(f, True) else 0.0
FlagEntry(p, f) ==
    IF Truthy(Get(p, f, Bool(TRUE))) THEN Res("none", Num(1)) ELSE Res("none", Num(0))

\* 1.0 if p.get("post_processing_order", "facefixers_first") == "facefixers_first" else 0.0
OrderEntry(p) ==
    LET v == Get(p, "post_processing_order", Str("facefixers_first")) IN
    IF v.t = "str" /\ v.s = "facefixers_first"
    THEN Res("none", Num(1)) ELSE Res("none", Num(0))

\* The list appended to data, lines 285-311, in its order.
FloatEntries(p) ==
    << DivEntry(p, "height", 1024),
       DivEntry(p, "width", 1024),
       DivEntry(p, "ddim_steps", 100),
       DivEntry(p, "cfg_scale", 30),
       NotNoneEntry(p, "denoising_strength"),
       FloatEntry(p, "clip_skip", Num(1)),
       NotNoneEntry(p, "control_strength"),
       NotNoneEntry(p, "facefixer_strength"),
       FloatEntry(p, "lora_count", Num(0)),
       FloatEntry(p, "ti_count", Num(0)),
       FloatEntry(p, "extra_source_images_count", Num(0)),
       FloatEntry(p, "extra_source_images_combined_size", Num(0)),
       FloatEntry(p, "source_image_size", Num(0)),
       FloatEntry(p, "source_mask_size", Num(0)),
       FlagEntry(p, "hires_fix"),
       FlagEntry(p, "hires_fix_denoising_strength"),
       FlagEntry(p, "image_is_control"),
       FlagEntry(p, "return_control_map"),
       FlagEntry(p, "transparent"),
       FlagEntry(p, "source_image"),
       FlagEntry(p, "source_mask"),
       FlagEntry(p, "tiling"),
       OrderEntry(p) >>

\* torch.tensor(data).float(): one row of floats; an entry that is no number
\* (a string or a list that got through a get) makes the conversion fail.
TensorOfFloats(entries) ==
    [err |-> IF \E i \in 1..Len(entries) : entries[i].v.t \notin {"num", "bool"}
             THEN "ValueError" ELSE "none",
     t   |-> << [i \in 1..Len(entries) |-> <<entries[i].v.n, entries[i].v.d>>] >>]

\* payload["model_baseline"] if it is in KNOWN_MODEL_BASELINES else "stable_diffusion_xl"
ModelBaselineOf(job) ==
    CASE job["model_baseline"].t = "absent" -> Res("KeyError", Null)
      [] In(job["model_baseline"], KNOWN_MODEL_BASELINES) -> Res("none", job["model_baseline"])
      [] OTHER -> Res("none", Str("stable_diffusion_xl"))

\* p["scheduler"]
SchedulerOf(p) ==
    IF p["scheduler"].t = "absent" THEN Res("KeyError", Null)
    ELSE Res("none", p["scheduler"])

\* p["sampler_name"] if p["sampler_name"] in KNOWN_SAMPLERS else "k_euler"
SamplerOf(p) ==
    CASE p["sampler_name"].t = "absent" -> Res("KeyError", Null)
      [] In(p["sampler_name"], KNOWN_SAMPLERS) -> Res("none", p["sampler_name"])
      [] OTHER -> Res("none", Str("k_euler"))

\* p.get("control_type", "None") if p.get("control_type", "None") is not None else "None"
ControlTypeOf(p) ==
    IF Get(p, "control_type", Str("None")).t # "null"
    THEN Res("none", Get(p, "control_type", Str("None")))
    ELSE Res("none", Str("None"))

\* payload.get("source_processing", "txt2img")
SourceProcessingOf(job) == Res("none", Get(job, "source_processing", Str("txt2img")))

\* p.get("post_processing", [])[:]; the elements of a list are strings.  A
\* value that is neither a list nor absent cannot be sliced.
PostProcessorsOf(p) ==
    LET v == Get(p, "post_processing", List(<<>>)) IN
    IF v.t = "list" THEN Res("none", [i \in 1..Len(v.l) |-> Str(v.l[i])])
    ELSE Res("TypeError", <<>>)

\* torch.cat(blocks, dim=1): the blocks must agree in their number of rows.
Cat(blocks) ==
    IF \E i \in 1..Len(blocks) : Len(blocks[i]) # Len(blocks[1])
    THEN [err |-> "RuntimeError", t |-> <<>>]
    ELSE [err |-> "none",
          t   |-> [r \in 1..Len(blocks[1]) |->
                      Flatten([i \in 1..Len(blocks) |-> blocks[i][r]])]]

payload_to_tensor(record) ==
    LET job == record.job
        p   == record.p
        data == FloatEntries(p)
        data_model_baseline == ModelBaselineOf(job)
        data_schedulers == SchedulerOf(p)
        data_samplers == SamplerOf(p)
        data_control_types == ControlTypeOf(p)
        data_source_processing_types == SourceProcessingOf(job)
        data_post_processors == PostProcessorsOf(p)
        _data_floats == TensorOfFloats(data)
        _data_model_baselines == one_hot_encode(<<data_model_baseline.v>>, KNOWN_MODEL_BASELINES)
        _data_samplers == one_hot_encode(<<data_samplers.v>>, KNOWN_SAMPLERS)
        _data_schedulers == one_hot_encode(<<data_schedulers.v>>, KNOWN_SCHEDULERS)
        _data_control_types == one_hot_encode(<<data_control_types.v>>, KNOWN_CONTROL_TYPES)
        _data_source_processing_types ==
            one_hot_encode(<<data_source_processing_types.v>>, KNOWN_SOURCE_PROCESSING)
        _data_post_processors ==
            one_hot_encode_combined(data_post_processors.v, KNOWN_POST_PROCESSORS)
        built == FirstErr([i \in 1..Len(data) |-> data[i].err]
                          \o << data_model_baseline.err, data_schedulers.err,
                                data_samplers.err, data_control_types.err,
                                data_source_processing_types.err,
                                data_post_processors.err >>)
        encoded == FirstErr(<< _data_floats.err, _data_model_baselines.err,
                               _data_samplers.err, _data_schedulers.err,
                               _data_control_types.err,
                               _data_source_processing_types.err,
                               _data_post_processors.err >>)
        cat == Cat(<< _data_floats.t, _data_model_baselines.t, _data_samplers.t,
                      _data_schedulers.t, _data_control_types.t,
                      _data_source_processing_types.t, _data_post_processors.t >>)
    IN  CASE built # "none" -> [err |-> built, t |-> <<>>]
          [] encoded # "none" -> [err |-> encoded, t |-> <<>>]
          [] OTHER -> cat

-----------------------------------------------------------------------------
(* The records the encoder is applied to: PAYLOAD_EXAMPLE with up to        *)
(* MaxEdits of its fields replaced, absent or null.                         *)

MaxEdits == 2
MaxPostProcessors == 2

NotEncoded == [err |-> "not encoded", t |-> <<>>]

FieldOrder ==
    << <<"job", "model_baseline">>, <<"job", "source_processing">>,
       <<"p", "sampler_name">>, <<"p", "scheduler">>, <<"p", "control_type">>,
       <<"p", "post_processing">>, <<"p", "post_processing_order">>,
       <<"p", "height">>, <<"p", "width">>, <<"p", "ddim_steps">>, <<"p", "cfg_scale">>,
       <<"p", "denoising_strength">>, <<"p", "clip_skip">>, <<"p", "control_strength">>,
       <<"p", "facefixer_strength">>, <<"p", "lora_count">>, <<"p", "ti_count">>,
       <<"p", "extra_source_images_count">>,
       <<"p", "extra_source_images_combined_size">>,
       <<"p", "source_image_size">>, <<"p", "source_mask_size">>,
       <<"p", "hires_fix">>, <<"p", "hires_fix_denoising_strength">>,
       <<"p", "image_is_control">>, <<"p", "return_control_map">>,
       <<"p", "transparent">>, <<"p", "source_image">>, <<"p", "source_mask">>,
       <<"p", "tiling">> >>

PostProcessorNames == {"GFPGAN", "CodeFormers", "unknown_post_processor"}

PostProcessingLists ==
    UNION {[1..n -> PostProcessorNames] : n \in 0..MaxPostProcessors}

FieldValues(f) ==
    {Absent, Null} \cup
    CASE f \in RequiredNumeric -> {Num(512)}
      [] f \in NotNoneNumeric -> {Frac(3, 4)}
      [] f \in FloatNumeric -> {Num(2)}
      [] f \in DefaultTrueFlags -> {Bool(TRUE), Bool(FALSE)}
      [] f = "post_processing_order" -> {Str("facefixers_first"), Str("upscalers_first")}
      [] f = "scheduler" -> {Str("karras"), Str("simple"), Str("exponential")}
      [] f = "sampler_name" -> {Str("k_euler"), Str("k_lms"), Str("unknown_sampler")}
      [] f = "control_type" -> {Str("canny"), Str("None"), Str("unknown_control")}
      [] f = "model_baseline" -> {Str("stable_diffusion_1"), Str("flux_1"),
                                  Str("unknown_baseline")}
      [] f = "source_processing" -> {Str("img2img"), Str("txt2img"), Str("unknown_mode")}
      [] f = "post_processing" -> {List(l) : l \in PostProcessingLists}

FieldOf(record, k) == record[FieldOrder[k][1]][FieldOrder[k][2]]

EncInit ==
    /\ payload = PAYLOAD_EXAMPLE
    /\ tensor = NotEncoded
    /\ edits = 0
    /\ cursor = 0

\* The caller prepares another record: one more field gets another value.
SetField(k, v) ==
    /\ edits < MaxEdits
    /\ k > cursor
    /\ v # FieldOf(PAYLOAD_EXAMPLE, k)
    /\ payload' = [payload EXCEPT ![FieldOrder[k][1]][FieldOrder[k][2]] = v]
    /\ tensor' = NotEncoded
    /\ edits' = edits + 1
    /\ cursor' = k
    /\ UNCHANGED encRest

\* KudosDataset.payload_to_tensor(payload)
Encode ==
    /\ tensor = NotEncoded
    /\ tensor' = payload_to_tensor(payload)
    /\ UNCHANGED <<payload, edits, cursor>>
    /\ UNCHANGED encRest

EncNext ==
    \/ \E k \in 1..Len(FieldOrder) : \E v \in FieldValues(FieldOrder[k][2]) : SetField(k, v)
    \/ Encode

-----------------------------------------------------------------------------
(* Properties of the encoder *)

\* The vocabularies in the order of the blocks of the vector, lines 329-340.
Vocabularies ==
    << KNOWN_MODEL_BASELINES, KNOWN_SAMPLERS, KNOWN_SCHEDULERS, KNOWN_CONTROL_TYPES,
       KNOWN_SOURCE_PROCESSING, KNOWN_POST_PROCESSORS >>

NumericFields ==
    RequiredNumeric \cup NotNoneNumeric \cup FloatNumeric \cup DefaultTrueFlags
    \cup {"post_processing_order"}

\* The block of vocabulary b in an encoded vector.
BlockOf(vec, b) ==
    LET start == Cardinality(NumericFields) + SumLen(SubSeq(Vocabularies, 1, b - 1))
    IN  SubSeq(vec, start + 1, start + Len(Vocabularies[b]))

Encoded == tensor # NotEncoded

\* The fields outside the set fs are as in PAYLOAD_EXAMPLE.
OnlyEdited(fs) ==
    /\ \A f \in PFields \ fs : payload.p[f] = PAYLOAD_EXAMPLE.p[f]
    /\ \A f \in JobFields \ fs : payload.job[f] = PAYLOAD_EXAMPLE.job[f]

ExactlyOneHot(block) ==
    \E j \in 1..Len(block) :
        block[j] = One /\ \A k \in 1..Len(block) : k # j => block[k] = Zero

HotAt(block, vocabulary, s) ==
    /\ Index(vocabulary, Str(s)) > 0
    /\ Len(block) = Len(vocabulary)
    /\ \A k \in 1..Len(block) :
          block[k] = IF k = Index(vocabulary, Str(s)) THEN One ELSE Zero

\* The block of categorical value v is one-hot: at v when v is in the
\* vocabulary, at the fallback when it is not.
OneHotOrFallback(block, vocabulary, v, fallback) ==
    IF In(v, vocabulary) THEN HotAt(block, vocabulary, v.s)
    ELSE HotAt(block, vocabulary, fallback)

\* C1: when every single-valued categorical field holds a string, in or out
\* of its vocabulary, the encoder returns without an exception and the
\* field's block is one-hot, at the value or at the fallback category.
C1_OneHotOrFallback ==
    ( /\ Encoded
      /\ OnlyEdited(PCategorical \cup JobCategorical)
      /\ \A f \in PCategorical : payload.p[f].t = "str"
      /\ \A f \in JobCategorical : payload.job[f].t = "str" )
    => /\ tensor.err = "none"
       /\ OneHotOrFallback(BlockOf(tensor.t[1], 1), KNOWN_MODEL_BASELINES,
                           payload.job["model_baseline"], "stable_diffusion_xl")
       /\ OneHotOrFallback(BlockOf(tensor.t[1], 2), KNOWN_SAMPLERS,
                           payload.p["sampler_name"], "k_euler")
       /\ ExactlyOneHot(BlockOf(tensor.t[1], 3))
       /\ OneHotOrFallback(BlockOf(tensor.t[1], 4), KNOWN_CONTROL_TYPES,
                           payload.p["control_type"], "None")
       /\ OneHotOrFallback(BlockOf(tensor.t[1], 5), KNOWN_SOURCE_PROCESSING,
                           payload.job["source_processing"], "txt2img")

\* The order of the numeric block, lines 287-309.
FloatOrder ==
    << "height", "width", "ddim_steps", "cfg_scale", "denoising_strength", "clip_skip",
       "control_strength", "facefixer_strength", "lora_count", "ti_count",
       "extra_source_images_count", "extra_source_images_combined_size",
       "source_image_size", "source_mask_size", "hires_fix",
       "hires_fix_denoising_strength", "image_is_control", "return_control_map",
       "transparent", "source_image", "source_mask", "tiling", "post_processing_order" >>

FloatAt(vec, f) == vec[CHOOSE i \in 1..Len(FloatOrder) : FloatOrder[i] = f]

NamedDefaultTrueFlags ==
    {"hires_fix", "image_is_control", "return_control_map", "transparent", "tiling"}

ZeroDefault == FloatNumeric \ {"clip_skip"}

OptionalFields == NotNoneNumeric \cup FloatNumeric \cup NamedDefaultTrueFlags

\* C2: an optional numeric or boolean field that is absent or null is encoded
\* as its default (1.0 for the default-true flags) and the encoder returns
\* without an exception.
C2_OptionalDefaults ==
    ( /\ Encoded
      /\ OnlyEdited(OptionalFields)
      /\ \A f \in OptionalFields : payload.p[f].t \in {"absent", "null", "num", "bool"} )
    => /\ tensor.err = "none"
       /\ \A f \in OptionalFields :
             payload.p[f].t \in {"absent", "null"} =>
                FloatAt(tensor.t[1], f) = IF f \in ZeroDefault THEN Zero ELSE One

\* A record the encoder accepts: the required numbers are there, the
\* optional ones are numbers where the code converts them, the categorical
\* values are ones the code finds or replaces, and the post-processors are
\* known.
Valid(record) ==
    /\ \A f \in RequiredNumeric : record.p[f].t = "num"
    /\ \A f \in NotNoneNumeric : record.p[f].t \in {"absent", "null", "num"}
    /\ \A f \in FloatNumeric : record.p[f].t \in {"absent", "num"}
    /\ record.job["model_baseline"].t # "absent"
    /\ record.p["sampler_name"].t # "absent"
    /\ In(record.p["scheduler"], KNOWN_SCHEDULERS)
    /\ \/ record.p["control_type"].t \in {"absent", "null"}
       \/ In(record.p["control_type"], KNOWN_CONTROL_TYPES)
    /\ \/ record.job["source_processing"].t = "absent"
       \/ In(record.job["source_processing"], KNOWN_SOURCE_PROCESSING)
    /\ \/ record.p["post_processing"].t = "absent"
       \/ /\ record.p["post_processing"].t = "list"
          /\ \A i \in 1..Len(record.p["post_processing"].l) :
                In(Str(record.p["post_processing"].l[i]), KNOWN_POST_PROCESSORS)

\* objective, line 388: input_size = len(payload_to_tensor(PAYLOAD_EXAMPLE)[0])
input_size == Len(payload_to_tensor(PAYLOAD_EXAMPLE).t[1])

\* C3: every valid record is encoded, and every encoded vector is one row
\* whose length is the number of numeric fields plus the sizes of the six
\* vocabularies, which is the input width objective takes from
\* PAYLOAD_EXAMPLE.
C3_VectorLength ==
    Encoded =>
       /\ Valid(payload) => tensor.err = "none"
       /\ tensor.err = "none" =>
             /\ Len(tensor.t) = 1
             /\ Len(tensor.t[1]) = Cardinality(NumericFields) + SumLen(Vocabularies)
             /\ Len(tensor.t[1]) = input_size

C3_Witness ==
    /\ Encoded
    /\ tensor.err = "none"
    /\ payload.p["post_processing"] = List(<<"GFPGAN", "CodeFormers">>)
    /\ payload.p["sampler_name"] = Str("unknown_sampler")
    /\ Len(tensor.t[1]) = input_size

\* How often s occurs in the list l.
Occurrences(l, s) == Cardinality({i \in 1..Len(l) : l[i] = s})

PostProcessingOf(record) ==
    IF record.p["post_processing"].t = "list" THEN record.p["post_processing"].l ELSE <<>>

\* C4: for a post-processing list over KNOWN_POST_PROCESSORS the last block
\* of the vector has the full vocabulary width and holds at each position
\* the number of occurrences of that post-processor in the list.
C4_MultiHotCounts ==
    ( /\ Encoded
      /\ tensor.err = "none"
      /\ payload.p["post_processing"].t = "list" )
    => /\ Len(BlockOf(tensor.t[1], 6)) = Len(KNOWN_POST_PROCESSORS)
       /\ \A k \in 1..Len(KNOWN_POST_PROCESSORS) :
             BlockOf(tensor.t[1], 6)[k] =
                <<Occurrences(PostProcessingOf(payload), KNOWN_POST_PROCESSORS[k]), 1>>

C4_Witness ==
    /\ Encoded
    /\ tensor.err = "none"
    /\ payload.p["post_processing"] = List(<<"GFPGAN", "GFPGAN">>)
    /\ BlockOf(tensor.t[1], 6)[7] = <<2, 1>>

-----------------------------------------------------------------------------
(* KudosDataset.__init__, __len__ and __getitem__, lines 257-272, 357-361.  *)
(* Tensors hold the exact fractions; positions count from 1.                *)

MaxRecords == 3

NoItem == [data |-> <<>>, label |-> Zero]

\* The records of a data file: two request payloads, each with a label that
\* is a number, null or missing.
OtherPayload ==
    [PAYLOAD_EXAMPLE EXCEPT !.p["sampler_name"] = Str("k_lms"),
                            !.p["post_processing"] = List(<<"GFPGAN">>)]

LabelValues == {Absent, Null, Frac(445, 100), Num(2)}

FileRecords ==
    {[r EXCEPT !.label = v] : r \in {PAYLOAD_EXAMPLE, OtherPayload}, v \in LabelValues}

DataIdle ==
    /\ payload_list = <<>>
    /\ self_data = <<>>
    /\ self_labels = <<>>
    /\ mixed_data = <<>>
    /\ ds_i = 1
    /\ ds_pc = "idle"
    /\ ds_err = "none"
    /\ item = NoItem

\* json.load(infile), and the empty self.data and self.labels.
DataInit ==
    /\ payload_list \in UNION {[1..n -> FileRecords] : n \in 0..MaxRecords}
    /\ self_data = <<>>
    /\ self_labels = <<>>
    /\ mixed_data = <<>>
    /\ ds_i = 1
    /\ ds_pc = "loop"
    /\ ds_err = "none"
    /\ item = NoItem

Raise(e) ==
    /\ ds_pc' = "raised"
    /\ ds_err' = e
    /\ UNCHANGED <<payload_list, self_data, self_labels, mixed_data, ds_i, item>>

\* One round of "for payload in payload_list", lines 265-269.
LoadRecord ==
    /\ ds_pc = "loop"
    /\ ds_i <= Len(payload_list)
    /\ UNCHANGED dsRest
    /\ LET rec == payload_list[ds_i]
           enc == payload_to_tensor(rec)
       IN  CASE rec.label.t = "absent" -> Raise("KeyError")
             [] rec.label.t = "null" ->
                  /\ ds_i' = ds_i + 1
                  /\ UNCHANGED <<payload_list, self_data, self_labels, mixed_data, ds_pc,
                                 ds_err, item>>
             [] enc.err # "none" -> Raise(enc.err)
             [] OTHER ->
                  /\ self_data' = Append(self_data, enc.t[1])
                  /\ self_labels' = Append(self_labels, <<rec.label.n, rec.label.d>>)
                  /\ ds_i' = ds_i + 1
                  /\ UNCHANGED <<payload_list, mixed_data, ds_pc, ds_err, item>>

\* After the loop, lines 271-272: torch.tensor(self.labels).float() and
\* torch.stack(self.data), which needs a non-empty list.
Stack ==
    /\ ds_pc = "loop"
    /\ ds_i > Len(payload_list)
    /\ UNCHANGED dsRest
    /\ IF self_data = <<>> THEN Raise("RuntimeError")
       ELSE /\ mixed_data' = self_data
            /\ ds_pc' = "ready"
            /\ UNCHANGED <<payload_list, self_data, self_labels, ds_i, ds_err, item>>

\* __len__
len == Len(self_data)

\* __getitem__(idx)
GetItem(idx) ==
    /\ ds_pc = "ready"
    /\ item' = [data |-> mixed_data[idx], label |-> self_labels[idx]]
    /\ UNCHANGED <<payload_list, self_data, self_labels, mixed_data, ds_i, ds_pc, ds_err>>
    /\ UNCHANGED dsRest

DataNext ==
    \/ LoadRecord
    \/ Stack
    \/ \E idx \in 1..len : GetItem(idx)

-----------------------------------------------------------------------------
(* Properties of the dataset *)

\* The records of payload_list that have a label which is not null.
Labelled == SelectSeq(payload_list, LAMBDA r : r.label.t \notin {"absent", "null"})

\* C5: the constructor ends without an exception for a list in which labels
\* are missing or null; the count is the number of records with a non-null
\* label and index i holds the vector and the label of the i-th of them.
C5_SkipsUnlabelled ==
    (ds_pc \in {"ready", "raised"} /\ Labelled # <<>>) =>
       /\ ds_err = "none"
       /\ len = Len(Labelled)
       /\ \A i \in 1..Len(Labelled) :
             /\ mixed_data[i] = payload_to_tensor(Labelled[i]).t[1]
             /\ self_labels[i] = <<Labelled[i].label.n, Labelled[i].label.d>>

-----------------------------------------------------------------------------
(* create_sequential_model, lines 364-380.  A layer is [kind, a, b]:        *)
(* nn.Linear(a, b), nn.ReLU() or nn.Dropout(b) whose probability b (in      *)
(* hundredths) the trial sampled under the name dropout_l<a>.               *)

MaxHidden == 3

Linear(a, b)  == [kind |-> "Linear", a |-> a, b |-> b]
ReLU          == [kind |-> "ReLU", a |-> 0, b |-> 0]
Dropout(i, d) == [kind |-> "Dropout", a |-> i, b |-> d]

\* trial.suggest_float(f"dropout_l{i}", 0.05, 0.2, log=True), in hundredths.
DropoutChoices == {5, 20}

\* trial.suggest_int(f"hidden_layer_{i}_size", MIN_NODES_IN_LAYER,
\* MAX_NODES_IN_LAYER, log=True): some widths of that range.
WidthChoices == {4, 8}

output_size == 1

BuildIdle ==
    /\ hidden = <<>>
    /\ layer_sizes = <<>>
    /\ layers = <<>>
    /\ b_i = 0
    /\ b_pc = "idle"

\* The call, and line 366.
BuildInit ==
    /\ hidden \in UNION {[1..n -> WidthChoices] : n \in 0..MaxHidden}
    /\ layer_sizes = <<input_size>> \o hidden \o <<output_size>>
    /\ layers = <<>>
    /\ b_i = 0
    /\ b_pc = "loop"

\* Variant: a dropout layer after every hidden layer.
AddsDropout_every(i) == TRUE

\* Line 375: if i > 0
AddsDropout(i) == i > 0

\* One round of "for i in range(len(layer_sizes) - 1)", lines 370-377.
\* layer_sizes[i] of the code is layer_sizes[i + 1] here.
BuildLayer ==
    /\ b_pc = "loop"
    /\ b_i < Len(layer_sizes) - 1
    /\ \E drop \in DropoutChoices :
          layers' = layers \o << Linear(layer_sizes[b_i + 1], layer_sizes[b_i + 2]) >>
                    \o (IF b_i < Len(layer_sizes) - 2
                        THEN << ReLU >> \o (IF AddsDropout(b_i)
                                            THEN << Dropout(b_i, drop) >> ELSE <<>>)
                        ELSE <<>>)
    /\ b_i' = b_i + 1
    /\ UNCHANGED <<hidden, layer_sizes, b_pc>>
    /\ UNCHANGED bldRest

\* Line 380: return nn.Sequential(*layers)
BuildReturn ==
    /\ b_pc = "loop"
    /\ b_i = Len(layer_sizes) - 1
    /\ b_pc' = "done"
    /\ UNCHANGED <<hidden, layer_sizes, layers, b_i>>
    /\ UNCHANGED bldRest

BuildNext == BuildLayer \/ BuildReturn

-----------------------------------------------------------------------------
(* Properties of the builder *)

KindCount(ls, kind) == Cardinality({k \in 1..Len(ls) : ls[k].kind = kind})

\* The positions of the linear layers in ls, in increasing order.
LinearAt(ls) == SelectSeq([k \in 1..Len(ls) |-> k], LAMBDA k : ls[k].kind = "Linear")

\* C6: for L hidden widths the network has L+1 linear layers, one per
\* consecutive pair of [input_size] + widths + [output_size]; every hidden
\* linear layer is directly followed by a nonlinearity, L in all; a dropout
\* layer follows the nonlinearity of every hidden layer but the first,
\* max(0, L-1) in all, each sampled under its own name; the last linear
\* layer ends the network.
C6_BuilderShape ==
    b_pc = "done" =>
       LET L == Len(hidden)
           sizes == <<input_size>> \o hidden \o <<output_size>>
           lin == LinearAt(layers)
       IN  /\ KindCount(layers, "Linear") = L + 1
           /\ KindCount(layers, "ReLU") = L
           /\ KindCount(layers, "Dropout") = IF L > 1 THEN L - 1 ELSE 0
           /\ Len(layers) = KindCount(layers, "Linear") + KindCount(layers, "ReLU")
                            + KindCount(layers, "Dropout")
           /\ \A k \in 1..(L + 1) : layers[lin[k]] = Linear(sizes[k], sizes[k + 1])
           /\ \A k \in 1..L : layers[lin[k] + 1] = ReLU
           /\ lin[1] = 1
           /\ L >= 1 => lin[2] = 3
           /\ \A k \in 2..L : /\ layers[lin[k] + 2].kind = "Dropout"
                              /\ layers[lin[k] + 2].a = k - 1
                              /\ layers[lin[k] + 2].b \in DropoutChoices
                              /\ lin[k + 1] = lin[k] + 3
           /\ lin[L + 1] = Len(layers)

C6_Witness ==
    /\ b_pc = "done"
    /\ hidden = <<8, 4>>
    /\ KindCount(layers, "ReLU") = 2
    /\ KindCount(layers, "Dropout") = 1
    /\ layers[Len(layers)] = Linear(4, 1)

-----------------------------------------------------------------------------
(* The validation pass of objective, lines 425-459.  A squared error is an  *)
(* exact fraction; the model and the labels enter only through the squared  *)
(* error (outputs - labels)^2 of each validation example.                   *)

\* DataLoader(validate_dataset, batch_size=64, shuffle=True)
VALIDATE_BATCH_SIZE == 64

NoneLoss == <<0, 0>>

\* Exact fractions <<numerator, denominator>>, as functions of their values.
GCD[a \in Nat, b \in Nat] == IF b = 0 THEN a ELSE GCD[b, a % b]

FNorm[x \in Nat \X Nat] ==
    LET g == GCD[x[1], x[2]] IN IF g = 0 THEN x ELSE <<x[1] \div g, x[2] \div g>>

FAdd[x \in Nat \X Nat, y \in Nat \X Nat] ==
    LET g == GCD[x[2], y[2]]
    IN  FNorm[<<x[1] * (y[2] \div g) + y[1] * (x[2] \div g), (x[2] \div g) * y[2]>>]

FLess(x, y) == x[1] * y[2] < y[1] * x[2]

\* The batches of a DataLoader without drop_last: the last may be short.
RECURSIVE Batches(_, _)
Batches(examples, batch_size) ==
    IF examples = <<>> THEN <<>>
    ELSE IF Len(examples) <= batch_size THEN << examples >>
    ELSE << SubSeq(examples, 1, batch_size) >>
         \o Batches(SubSeq(examples, batch_size + 1, Len(examples)), batch_size)

RECURSIVE FSumRange(_, _, _)
\* xs[lo] + ... + xs[hi]; the fractions are exact, so the sum is taken by
\* halves.
FSumRange(xs, lo, hi) ==
    IF lo > hi THEN Zero
    ELSE IF lo = hi THEN xs[lo]
    ELSE LET mid == (lo + hi) \div 2
         IN  FAdd[FSumRange(xs, lo, mid), FSumRange(xs, mid + 1, hi)]

\* start + xs[1] + ... + xs[n]
FSum(start, xs) == FAdd[start, FSumRange(xs, 1, Len(xs))]

\* nn.MSELoss() on one batch: the mean of its squared errors.
MSELoss(batch) ==
    LET total == FSum(Zero, batch) IN FNorm[<<total[1], total[2] * Len(batch)>>]

\* Variant: the accumulator is not reset, it goes on from the last epoch.
AccumulatorStart_carry(total_loss) == IF total_loss = NoneLoss THEN Zero ELSE total_loss

\* Line 448: total_loss = 0
AccumulatorStart(total_loss) == Zero

\* Lines 448-458: total_loss after "total_loss /= len(validate_loader)", for
\* the examples in the order the loader delivers them.
ValidationMean(total_loss, delivered) ==
    LET batches == Batches(delivered, VALIDATE_BATCH_SIZE)
        total == FSum(AccumulatorStart(total_loss),
                      [b \in 1..Len(batches) |-> MSELoss(batches[b])])
    IN  FNorm[<<total[1], total[2] * Len(batches)>>]

\* Line 459: round(float(total_loss), 2), in hundredths.  A value half way
\* between two hundredths goes to either, as its binary float falls.
Round2(x) ==
    LET q == (100 * x[1]) \div x[2]
        r == (100 * x[1]) % x[2]
    IN  CASE 2 * r < x[2] -> {<<q, 100>>}
          [] 2 * r > x[2] -> {<<q + 1, 100>>}
          [] OTHER -> {<<q, 100>>, <<q + 1, 100>>}

\* The examples xs in the order perm (a permutation of their positions).
Permuted(xs, perm) == [i \in 1..Len(xs) |-> xs[perm[i]]]

-----------------------------------------------------------------------------
(* One validation pass for a fixed model: a validation set in which one or  *)
(* two examples have the squared error HighError and the others LowError,   *)
(* delivered in any order.                                                  *)

MaxValidation == 66

LowError  == <<1, 4>>
HighError == <<9046, 1000>>

ValIdle ==
    /\ val_errors = <<>>
    /\ delivery = <<>>
    /\ val_loss = NoneLoss

ValInit ==
    /\ \E n \in (1..2) \cup ((VALIDATE_BATCH_SIZE - 1)..MaxValidation) : \E k \in 1..2 :
          /\ k <= n
          /\ val_errors = [i \in 1..n |-> IF i <= k THEN HighError ELSE LowError]
    /\ delivery = <<>>
    /\ val_loss = NoneLoss

\* The loader shuffles: the high errors land at positions a and b.
Shuffle(a, b) ==
    /\ delivery = <<>>
    /\ a <= b
    /\ (a = b) = (Len(SelectSeq(val_errors, LAMBDA e : e = HighError)) = 1)
    /\ delivery' = [i \in 1..Len(val_errors) |->
                       IF i \in {a, b} THEN HighError ELSE LowError]
    /\ UNCHANGED <<val_errors, val_loss>>
    /\ UNCHANGED valRest

\* model.eval() and the loop over validate_loader, lines 447-458.
ValidationPass ==
    /\ delivery # <<>>
    /\ val_loss = NoneLoss
    /\ val_loss' = ValidationMean(NoneLoss, delivery)
    /\ UNCHANGED <<val_errors, delivery>>
    /\ UNCHANGED valRest

ValNext ==
    \/ \E a, b \in 1..Len(val_errors) : Shuffle(a, b)
    \/ ValidationPass

\* C10: whatever order the loader delivers the validation examples in, the
\* pass computes the same total_loss / len(validate_loader) as for the
\* examples in the order of the file.
C10_OrderIndependent ==
    val_loss # NoneLoss => val_loss = ValidationMean(NoneLoss, val_errors)

-----------------------------------------------------------------------------
(* The study: worker processes running main, lines 469-509, each trial      *)
(* running objective, lines 383-466.  What training leaves in the network   *)
(* is kept as the squared error it makes on each validation example.        *)

MaxTrials == 2
MaxEpochs == 2
MaxTrialValidation == 2

Workers == {"w1", "w2"}
\* --db-path, line 527, and --study-version, line 524
DbPaths == {"a.db", "b.db"}
StudyVersions == {"v21", "v22"}

\* What training can leave in the network: the squared error it makes on
\* each example of the validation set.
Weights == [1..validate_size -> {LowError, HighError}]
Untrained == [i \in 1..validate_size |-> HighError]
Orders(n) == {f \in [1..n -> 1..n] : \A i, j \in 1..n : f[i] = f[j] => i = j}

NoPath == <<"", -1>>

\* Variant: the file name does not carry the trial number.
CheckpointPath_unnumbered(version, number) == <<version, 0>>

\* f"kudos_models/kudos-{STUDY_VERSION}-{trial.number}.ckpt"
CheckpointPath(version, number) == <<version, number>>

Off ==
    [pc |-> "off", db |-> "", version |-> "", n_trials |-> 0, trial_id |-> 0,
     number |-> -1, num_epochs |-> 0, epoch |-> 0, total_loss |-> NoneLoss,
     weights |-> <<>>, lowest |-> NoneLoss, best_filename |-> NoPath]

\* All the trials of all the studies of all the ledgers.
TotalTrials ==
    SumLen([k \in 1..Len(SetToSeq(DbPaths \X StudyVersions)) |->
               ledger[SetToSeq(DbPaths \X StudyVersions)[k][1]]
                     [SetToSeq(DbPaths \X StudyVersions)[k][2]]])

StudyIdle ==
    /\ wk = <<>>
    /\ ledger = [d \in DbPaths |-> [v \in StudyVersions |-> <<>>]]
    /\ files = <<>>
    /\ validate_size = 0
    /\ command_lines = {}

\* No process runs, the ledgers and kudos_models are empty.
StudyStart(workers) ==
    /\ wk = [w \in workers |-> Off]
    /\ ledger = [d \in DbPaths |-> [v \in StudyVersions |-> <<>>]]
    /\ files = <<>>

\* A validation file of one example and either two worker processes that
\* are started on one study, or one process that is started, again and
\* again, on the same version in two database files or on two versions in
\* one database file.
StudyInit ==
    /\ validate_size = 1
    /\ \/ /\ StudyStart(Workers)
          /\ command_lines = {<<"a.db", "v21">>}
       \/ /\ StudyStart({"w1"})
          /\ command_lines \in { {<<"a.db", "v21">>, <<"b.db", "v21">>},
                                  {<<"a.db", "v21">>, <<"a.db", "v22">>} }

\* One worker process on one study, validation files of several sizes.
TrialInit ==
    /\ StudyStart({"w1"})
    /\ validate_size \in 1..MaxTrialValidation
    /\ command_lines = {<<"a.db", "v21">>}

\* __main__ and main up to study.optimize: the arguments become the globals,
\* create_study(load_if_exists=True) makes or loads the study of the version.
Launch(w, db, version, n) ==
    /\ wk[w].pc = "off"
    /\ <<db, version>> \in command_lines
    /\ wk' = [wk EXCEPT ![w] = [Off EXCEPT !.pc = "optimize", !.db = db,
                                           !.version = version, !.n_trials = n]]
    /\ UNCHANGED <<ledger, files, validate_size, command_lines>>
    /\ UNCHANGED studyRest

\* Variant: the number is the count of the finished trials of the study.
NextTrialNumber_finished(trials) ==
    Len(SelectSeq(trials, LAMBDA t : t.state = "COMPLETE"))

\* The number the ledger gives a new trial: the count of the trials the
\* study already holds, taken in the transaction that adds the trial.
NextTrialNumber(trials) == Len(trials)

\* study.optimize asks the ledger for a trial and calls objective, which
\* samples the hyperparameters, builds the network and loads the data
\* (lines 383-433): the trial is now in the ledger, in state RUNNING.
Ask(w, epochs) ==
    /\ wk[w].pc = "optimize"
    /\ wk[w].n_trials > 0
    /\ TotalTrials < MaxTrials
    /\ LET trials == ledger[wk[w].db][wk[w].version]
           trial == [number |-> NextTrialNumber(trials), state |-> "RUNNING",
                     value |-> NoneLoss]
       IN  /\ ledger' = [ledger EXCEPT ![wk[w].db][wk[w].version] = Append(trials, trial)]
           /\ wk' = [wk EXCEPT ![w].pc = "train",
                               ![w].trial_id = Len(trials) + 1,
                               ![w].number = trial.number,
                               ![w].num_epochs = epochs,
                               ![w].epoch = 0,
                               ![w].total_loss = NoneLoss,
                               ![w].weights = Untrained,
                               ![w].lowest = NoneLoss]
    /\ UNCHANGED <<files, validate_size, command_lines>>
    /\ UNCHANGED studyRest

\* One round of "for _ in range(num_epochs)", lines 434-459: the training
\* pass changes the weights, the validation pass over the examples in the
\* order perm of the shuffling loader sets total_loss.
Epoch(w, weights, perm) ==
    /\ wk[w].pc = "train"
    /\ wk[w].epoch < wk[w].num_epochs
    /\ \E rounded \in Round2(ValidationMean(wk[w].total_loss, Permuted(weights, perm))) :
          wk' = [wk EXCEPT ![w].weights = weights,
                           ![w].epoch = @ + 1,
                           ![w].total_loss = rounded,
                           ![w].lowest = IF @ = NoneLoss \/ FLess(rounded, @)
                                         THEN rounded ELSE @]
    /\ UNCHANGED <<ledger, files, validate_size, command_lines>>
    /\ UNCHANGED studyRest

\* After the last epoch, lines 461-464: open(filename, "wb") and pickle.dump.
SaveCheckpoint(w) ==
    /\ wk[w].pc = "train"
    /\ wk[w].epoch = wk[w].num_epochs
    /\ files' = (CheckpointPath(wk[w].version, wk[w].number)
                    :> [db |-> wk[w].db, trial_id |-> wk[w].trial_id]) @@ files
    /\ wk' = [wk EXCEPT ![w].pc = "return"]
    /\ UNCHANGED <<ledger, validate_size, command_lines>>
    /\ UNCHANGED studyRest

\* Line 466 and the ledger's record of the returned value; the locals of
\* objective are gone.
Tell(w) ==
    /\ wk[w].pc = "return"
    /\ ledger' = [ledger EXCEPT ![wk[w].db][wk[w].version][wk[w].trial_id] =
                     [@ EXCEPT !.state = "COMPLETE", !.value = wk[w].total_loss]]
    /\ wk' = [wk EXCEPT ![w] = [Off EXCEPT !.pc = "optimize", !.db = wk[w].db,
                                           !.version = wk[w].version,
                                           !.n_trials = wk[w].n_trials - 1]]
    /\ UNCHANGED <<files, validate_size, command_lines>>
    /\ UNCHANGED studyRest

\* study.best_trial: the lowest value among the finished trials, the first
\* of them on a tie.
BestTrial(trials) ==
    LET done == SelectSeq(trials, LAMBDA t : t.state = "COMPLETE")
    IN  done[CHOOSE i \in 1..Len(done) :
                /\ \A j \in 1..Len(done) : ~FLess(done[j].value, done[i].value)
                /\ \A j \in 1..(i - 1) : FLess(done[i].value, done[j].value)]

\* Lines 498-509: the best trial and its checkpoint path are printed.
Report(w) ==
    /\ wk[w].pc = "optimize"
    /\ wk[w].n_trials = 0
    /\ wk' = [wk EXCEPT ![w].pc = "reported",
                        ![w].best_filename =
                            CheckpointPath(wk[w].version,
                                           BestTrial(ledger[wk[w].db][wk[w].version]).number)]
    /\ UNCHANGED <<ledger, files, validate_size, command_lines>>
    /\ UNCHANGED studyRest

\* The process ends, after its report or because it is terminated from
\* outside at any point; its trial, if any, stays in the ledger as it is.
Exit(w) ==
    /\ wk[w].pc # "off"
    /\ wk' = [wk EXCEPT ![w] = Off]
    /\ UNCHANGED <<ledger, files, validate_size, command_lines>>
    /\ UNCHANGED studyRest

StudyNext ==
    \/ \E w \in DOMAIN wk, db \in DbPaths, version \in StudyVersions, n \in 1..MaxTrials :
          Launch(w, db, version, n)
    \/ \E w \in DOMAIN wk, epochs \in 1..MaxEpochs : Ask(w, epochs)
    \/ \E w \in DOMAIN wk, weights \in Weights, perm \in Orders(validate_size) :
          Epoch(w, weights, perm)
    \/ \E w \in DOMAIN wk : SaveCheckpoint(w)
    \/ \E w \in DOMAIN wk : Tell(w)
    \/ \E w \in DOMAIN wk : Report(w)
    \/ \E w \in DOMAIN wk : Exit(w)

-----------------------------------------------------------------------------
(* Properties of the objective and of the study *)

\* The mean of fractions.
PlainMean(xs) ==
    LET total == FSum(Zero, xs) IN FNorm[<<total[1], total[2] * Len(xs)>>]

\* The mean validation loss of an epoch: the mean over the batches of the
\* mean squared error of each batch.
EpochMean(errors) ==
    LET batches == Batches(errors, VALIDATE_BATCH_SIZE)
    IN  PlainMean([b \in 1..Len(batches) |-> PlainMean(batches[b])])

\* C7: the score objective returns is the mean validation loss of the last
\* epoch, rounded to hundredths as line 459 rounds it: it is computed from
\* the weights the last training pass left and from nothing else.
C7_LastEpochScore ==
    \A w \in DOMAIN wk :
        wk[w].pc = "return" =>
            wk[w].total_loss \in Round2(EpochMean(wk[w].weights))

\* A trial returns a score that is higher than the loss of an earlier epoch.
C7_Witness ==
    \E w \in DOMAIN wk :
        /\ wk[w].pc = "return"
        /\ wk[w].epoch >= 2
        /\ validate_size >= 2
        /\ FLess(wk[w].lowest, wk[w].total_loss)
        /\ wk[w].total_loss \in Round2(EpochMean(wk[w].weights))

InTrial(w) == wk[w].pc \in {"train", "return"}

\* C8: in every study the trial numbers grow in the order of reservation, so
\* no two trials share a number; two workers inside objective for the same
\* study hold different numbers; and a worker inside objective can always
\* take its next step (an epoch, the checkpoint, the return of the score),
\* whatever the other workers are doing.
C8_DistinctNumbers ==
    /\ \A d \in DbPaths, v \in StudyVersions :
          \A i, j \in 1..Len(ledger[d][v]) :
              i < j => ledger[d][v][i].number < ledger[d][v][j].number
    /\ \A w1, w2 \in DOMAIN wk :
          ( /\ w1 # w2
            /\ InTrial(w1) /\ InTrial(w2)
            /\ wk[w1].db = wk[w2].db /\ wk[w1].version = wk[w2].version )
          => wk[w1].number # wk[w2].number
    /\ \A w \in DOMAIN wk :
          /\ (wk[w].pc = "train" /\ wk[w].epoch < wk[w].num_epochs)
                => ENABLED (\E weights \in Weights, perm \in Orders(validate_size) :
                               Epoch(w, weights, perm))
          /\ (wk[w].pc = "train" /\ wk[w].epoch = wk[w].num_epochs)
                => ENABLED SaveCheckpoint(w)
          /\ wk[w].pc = "return" => ENABLED Tell(w)

\* Two workers train at the same time for the same study, with two numbers.
C8_Witness ==
    /\ DOMAIN wk = Workers
    /\ wk["w1"].pc = "train" /\ wk["w2"].pc = "train"
    /\ wk["w1"].epoch >= 1 /\ wk["w2"].epoch >= 1
    /\ wk["w1"].db = wk["w2"].db /\ wk["w1"].version = wk["w2"].version
    /\ wk["w1"].number # wk["w2"].number

\* C9: a checkpoint file, once written, stays as it is.
C9_WriteOnce ==
    [][\A path \in DOMAIN files :
          path \in DOMAIN files' /\ files'[path] = files[path]]_vars

\* The finished trials of the study a worker runs.
Finished(w) ==
    SelectSeq(ledger[wk[w].db][wk[w].version], LAMBDA t : t.state = "COMPLETE")

\* C11: every trial whose score is in the ledger, whatever the score, has a
\* checkpoint file named by the study version and the trial's number; the
\* file is there before objective returns the score; and the path main
\* reports for the best trial is the path of a finished trial of its study,
\* so its file exists.
C11_ScoredHasCheckpoint ==
    /\ \A d \in DbPaths, v \in StudyVersions :
          \A i \in 1..Len(ledger[d][v]) :
              ledger[d][v][i].state = "COMPLETE"
                  => <<v, ledger[d][v][i].number>> \in DOMAIN files
    /\ \A w \in DOMAIN wk :
          wk[w].pc = "return" => <<wk[w].version, wk[w].number>> \in DOMAIN files
    /\ \A w \in DOMAIN wk :
          wk[w].pc = "reported" =>
              /\ wk[w].best_filename \in DOMAIN files
              /\ \E i \in 1..Len(Finished(w)) :
                    wk[w].best_filename = <<wk[w].version, Finished(w)[i].number>>

\* A worker has reported the best of two finished trials with different
\* scores; the trial with the worse score has its checkpoint file as well.
C11_Witness ==
    \E w \in DOMAIN wk :
        /\ wk[w].pc = "reported"
        /\ \E i, j \in 1..Len(Finished(w)) :
              /\ FLess(Finished(w)[i].value, Finished(w)[j].value)
              /\ wk[w].best_filename = <<wk[w].version, Finished(w)[i].number>>
              /\ <<wk[w].version, Finished(w)[j].number>> \in DOMAIN files
              /\ wk[w].best_filename \in DOMAIN files

-----------------------------------------------------------------------------------------------------------------------------------------------------
(* Specifications: each runs one part of the program, the others rest.      *)

EncRests ==
    payload = PAYLOAD_EXAMPLE /\ tensor = NotEncoded /\ edits = MaxEdits /\ cursor = 0

InitEnc == EncInit /\ DataIdle /\ BuildIdle /\ ValIdle /\ StudyIdle
SpecEnc == InitEnc /\ [][EncNext]_vars

InitData == EncRests /\ DataInit /\ BuildIdle /\ ValIdle /\ StudyIdle
SpecData == InitData /\ [][DataNext]_vars

InitBuild == EncRests /\ DataIdle /\ BuildInit /\ ValIdle /\ StudyIdle
SpecBuild == InitBuild /\ [][BuildNext]_vars

InitVal == EncRests /\ DataIdle /\ BuildIdle /\ ValInit /\ StudyIdle
SpecVal == InitVal /\ [][ValNext]_vars

InitStudy == EncRests /\ DataIdle /\ BuildIdle /\ ValIdle /\ StudyInit
SpecStudy == InitStudy /\ [][StudyNext]_vars

InitTrial == EncRests /\ DataIdle /\ BuildIdle /\ ValIdle /\ TrialInit
SpecTrial == InitTrial /\ [][StudyNext]_vars

====
